---------------------------- MODULE Spec2Model ----------------------------
(***************************************************************************)
(* Flocking simulation: the 2D vector primitives of src/src/vector.js, the *)
(* per-agent steering pipeline of src/src/boid.js and the frame loop of    *)
(* Flocking.animate (src/unnamed/part_000).                                *)
(*                                                                         *)
(* Numbers.  A JavaScript number is modelled as a fixed-point value: the   *)
(* integer n stands for n / Scale.  Sums and differences are exact; a      *)
(* product, a quotient or a square root whose exact value is not a         *)
(* multiple of 1 / Scale is rounded to the nearest one, as IEEE arithmetic *)
(* rounds to the nearest double.  Squared magnitudes are kept exactly, in  *)
(* units of 1 / Scale^2.                                                   *)
(***************************************************************************)
EXTENDS Integers, Sequences, FiniteSets, TLC

\* Units per 1.0: 10.5, 0.8 and 2.0 are all exact multiples of 1/40.
Scale == 4 * 10

\* ------------------------------------------------------------ bounds
NumBoids == 4
MaxTicks == 2
\* vector components of VectorSpec range over -VecRange..VecRange steps of 3.5
VecRange == 3

\* ------------------------------- program constants, in fixed point
\* const r = 10
r == 10 * Scale
\* const maxforce = 10
maxforce == 10 * Scale
\* const maxspeed = 10.5
maxspeed == (105 * Scale) \div 10
\* the world's width and height, the 700 of borders and of the initial positions
worldSize == 700 * Scale
\* sep.multiply(2.0), ali.multiply(1.0), coh.multiply(0.8)
sepWeight == (20 * Scale) \div 10
aliWeight == (10 * Scale) \div 10
cohWeight == (8 * Scale) \div 10

Fix(n) == n * Scale

\* --------------------------------------------------------- arithmetic
Abs(n) == IF n < 0 THEN -n ELSE n

Sign(n) == IF n < 0 THEN -1 ELSE IF n > 0 THEN 1 ELSE 0

\* a / b for b > 0, rounded to the nearest integer (halves away from zero).
RoundDivPos(a, b) == (2 * a + b) \div (2 * b)

\* a / b for b # 0, rounded to the nearest integer.
RoundDiv(a, b) == Sign(a) * Sign(b) * RoundDivPos(Abs(a), Abs(b))

\* The product of two fixed-point numbers.
Times(a, b) == RoundDiv(a * b, Scale)

\* The quotient of two fixed-point numbers, b # 0.
Over(a, b) == RoundDiv(a * Scale, b)

RECURSIVE SqrtSearch(_, _, _)
\* The largest s in lo..hi with s * s <= n.
SqrtSearch(n, lo, hi) ==
    IF lo = hi THEN lo
    ELSE LET mid == (lo + hi + 1) \div 2
         IN  IF mid * mid <= n THEN SqrtSearch(n, mid, hi)
                               ELSE SqrtSearch(n, lo, mid - 1)

\* Math.sqrt of an exact squared magnitude (units 1 / Scale^2), rounded to
\* the nearest fixed-point number.
Sqrt(n) ==
    LET s == SqrtSearch(n, 0, 46340)
    IN  IF n - s * s > s THEN s + 1 ELSE s

\* ------------------------------------------------------------ Vector
\* function Vector(x, y)
Vector(x, y) == [x |-> x, y |-> y]

\* A scalar operand of a vector method.
Scalar(n) == [s |-> n]

\* v instanceof Vector
IsVector(v) == "x" \in DOMAIN v

negative(this) == Vector(-this.x, -this.y)

add(this, v) ==
    IF IsVector(v) THEN Vector(this.x + v.x, this.y + v.y)
                   ELSE Vector(this.x + v.s, this.y + v.s)

subtract(this, v) ==
    IF IsVector(v) THEN Vector(this.x - v.x, this.y - v.y)
                   ELSE Vector(this.x - v.s, this.y - v.s)

multiply(this, v) ==
    IF IsVector(v) THEN Vector(Times(this.x, v.x), Times(this.y, v.y))
                   ELSE Vector(Times(this.x, v.s), Times(this.y, v.s))

div(this, v) ==
    IF IsVector(v)
    THEN Vector(IF v.x # 0 THEN Over(this.x, v.x) ELSE this.x,
                IF v.y # 0 THEN Over(this.y, v.y) ELSE this.y)
    ELSE IF v.s # 0 THEN Vector(Over(this.x, v.s), Over(this.y, v.s))
                    ELSE this

\* Exact, in units of 1 / Scale^2.
magSq(this) == this.x * this.x + this.y * this.y

mag(this) == Sqrt(magSq(this))

\* this.multiply(1 / len): the reciprocal is not rounded to 1 / Scale on
\* its own, the product is rounded once.
normalize(this) ==
    LET len == mag(this)
    IN  IF len # 0 THEN Vector(Over(this.x, len), Over(this.y, len))
                   ELSE this

copy(this) == Vector(this.x, this.y)

\* limit comparing the squared magnitude with max, not with max * max.
limit_unsquared(this, max) ==
    LET mSq == magSq(this)
    IN  IF mSq > max
        THEN multiply(div(this, Scalar(Sqrt(mSq))), Scalar(max))
        ELSE this

\* max is a fixed-point scalar; max * max is exact in units 1 / Scale^2.
limit(this, max) ==
    LET mSq == magSq(this)
    IN  IF mSq > max * max
        THEN multiply(div(this, Scalar(Sqrt(mSq))), Scalar(max))
        ELSE this

\* ---------------------------------------------- Vector, static methods
\* What a call gives back.  A returned vector is value; an axis whose component
\* is not a finite number says so in x or y ("Infinity", "-Infinity") and
\* holds 0 in value.
Returned(v) == [status |-> "returned", value |-> v, x |-> "finite", y |-> "finite"]

\* The else branches of the static methods read v, which no script declares.
Threw(e) == [status |-> "threw", value |-> Vector(0, 0), x |-> e, y |-> e]

\* this.angleTo(a) calls this.length(), and a Vector has no length method
\* (Vector.prototype is the object literal, which defines none): the call of
\* undefined throws after this.dot(a) was evaluated, whatever a is.
angleTo(this, a) == Threw("TypeError")

Vector_negative(v) == Returned(Vector(-v.x, -v.y))

Vector_add(a, b) ==
    IF IsVector(b) THEN Returned(Vector(a.x + b.x, a.y + b.y))
                   ELSE Threw("ReferenceError")

Vector_subtract(a, b) ==
    IF IsVector(b) THEN Returned(Vector(a.x - b.x, a.y - b.y))
                   ELSE Threw("ReferenceError")

Vector_multiply(a, b) ==
    IF IsVector(b) THEN Returned(Vector(Times(a.x, b.x), Times(a.y, b.y)))
                   ELSE Threw("ReferenceError")

\* n / d as new Vector(..) stores it: 0 / 0 is NaN, which x || 0 turns into 0.
QuotientKind(n, d) ==
    IF d # 0 \/ n = 0 THEN "finite"
    ELSE IF n > 0 THEN "Infinity" ELSE "-Infinity"

Quotient(n, d) == IF d # 0 THEN Over(n, d) ELSE 0

Vector_div(a, b) ==
    IF IsVector(b)
    THEN [status |-> "returned",
          value |-> Vector(Quotient(a.x, b.x), Quotient(a.y, b.y)),
          x |-> QuotientKind(a.x, b.x), y |-> QuotientKind(a.y, b.y)]
    ELSE Threw("ReferenceError")

\* Vector.dist on objects.  heap gives the value of each Vector object, a and b
\* name the two arguments (they may be one object); 0 names the object that
\* b.copy() creates.  subtract writes to its receiver, the copy.  Gives the
\* values of the heap's objects after the call, and the number returned.
Vector_distOn_noCopy(heap, a, b) ==
    LET h2 == [heap EXCEPT ![b] = subtract(@, heap[a])]
    IN  [heap |-> h2, result |-> mag(h2[b])]

Vector_distOn(heap, a, b) ==
    LET h1 == [o \in DOMAIN heap \cup {0} |->
                 IF o = 0 THEN copy(heap[b]) ELSE heap[o]]
        h2 == [h1 EXCEPT ![0] = subtract(@, h1[a])]
    IN  [heap |-> [o \in DOMAIN heap |-> h2[o]], result |-> mag(h2[0])]

\* Vector.dist(a, b), the number it returns for two vectors
Vector_dist(a, b) ==
    Vector_distOn([o \in {1, 2} |-> IF o = 1 THEN a ELSE b], 1, 2).result

\* ------------------------------------------------------------- Boid
\* new Boid(g), then the position, velocity and color the caller gives it.
Boid(position, velocity, color) ==
    [position |-> position, velocity |-> velocity,
     acceleration |-> Vector(0, 0), color |-> color]

\* seek without the limit on the steering force.
seek_noLimit(that, target) ==
    LET desired == multiply(normalize(Vector_subtract(target, that.position).value),
                            Scalar(maxspeed))
    IN  Vector_subtract(desired, that.velocity).value

seek(that, target) ==
    LET desired == multiply(normalize(Vector_subtract(target, that.position).value),
                            Scalar(maxspeed))
        steer   == Vector_subtract(desired, that.velocity).value
    IN  limit(steer, maxforce)

\* The neighbour test without its radius.
Near_anyDistance(d, radius) == d > 0

\* The neighbour test shared by the three scans: (d > 0) && (d < radius).
Near(d, radius) == (d > 0) /\ (d < radius)

RECURSIVE seperateScan(_, _, _, _)
\* The for loop of seperate from index k on; acc is [steer, count].
seperateScan(that, bs, k, acc) ==
    IF k > Len(bs) THEN acc
    ELSE LET other == bs[k]
             d     == Vector_dist(that.position, other.position)
         IN  IF Near(d, 30 * Scale)
             THEN LET diff == div(normalize(Vector_subtract(that.position,
                                                            other.position).value),
                                  Scalar(d))
                  IN  seperateScan(that, bs, k + 1,
                                   [steer |-> add(acc.steer, diff),
                                    count |-> acc.count + 1])
             ELSE seperateScan(that, bs, k + 1, acc)

seperate(that, bs) ==
    LET scan  == seperateScan(that, bs, 1, [steer |-> Vector(0, 0), count |-> 0])
        steer == IF scan.count > 0 THEN div(scan.steer, Scalar(Fix(scan.count)))
                                   ELSE scan.steer
    IN  IF mag(steer) > 0
        THEN limit(subtract(multiply(normalize(steer), Scalar(maxspeed)),
                            that.velocity),
                   maxforce)
        ELSE steer

RECURSIVE alignScan(_, _, _, _)
\* The for loop of align from index k on; acc is [sum, count].
alignScan(that, bs, k, acc) ==
    IF k > Len(bs) THEN acc
    ELSE LET other == bs[k]
             d     == Vector_dist(that.position, other.position)
         IN  IF Near(d, 50 * Scale)
             THEN alignScan(that, bs, k + 1,
                            [sum |-> add(acc.sum, other.velocity),
                             count |-> acc.count + 1])
             ELSE alignScan(that, bs, k + 1, acc)

align(that, bs) ==
    LET scan == alignScan(that, bs, 1, [sum |-> Vector(0, 0), count |-> 0])
    IN  IF scan.count > 0
        THEN LET sum == multiply(normalize(div(scan.sum, Scalar(Fix(scan.count)))),
                                 Scalar(maxspeed))
             IN  limit(Vector_subtract(sum, that.velocity).value, maxforce)
        ELSE Vector(0, 0)

\* The cohesion scan without its color test.
SameColor_any(that, other) == TRUE

\* that.color === other.color
SameColor(that, other) == that.color = other.color

RECURSIVE cohesionScan(_, _, _, _)
\* The for loop of cohesion from index k on; acc is [sum, count].
cohesionScan(that, bs, k, acc) ==
    IF k > Len(bs) THEN acc
    ELSE LET other == bs[k]
             d     == Vector_dist(that.position, other.position)
         IN  IF Near(d, 70 * Scale) /\ SameColor(that, other)
             THEN cohesionScan(that, bs, k + 1,
                               [sum |-> add(acc.sum, other.position),
                                count |-> acc.count + 1])
             ELSE cohesionScan(that, bs, k + 1, acc)

cohesion(that, bs) ==
    LET scan == cohesionScan(that, bs, 1, [sum |-> Vector(0, 0), count |-> 0])
    IN  IF scan.count > 0
        THEN seek(that, div(scan.sum, Scalar(Fix(scan.count))))
        ELSE Vector(0, 0)

\* const sep, ali, coh of flock, before weighting
forces(that, bs) ==
    [sep |-> seperate(that, bs), ali |-> align(that, bs), coh |-> cohesion(that, bs)]

\* flock(boids): the agent after its acceleration took the three weighted forces.
flock(that, bs) ==
    LET f   == forces(that, bs)
        sep == multiply(f.sep, Scalar(sepWeight))
        ali == multiply(f.ali, Scalar(aliWeight))
        coh == multiply(f.coh, Scalar(cohWeight))
    IN  [that EXCEPT !.acceleration = add(add(add(@, sep), ali), coh)]

\* update that moves by the old velocity before it integrates the acceleration.
update_moveFirst(that) ==
    LET velocity == limit(add(that.velocity, that.acceleration), maxspeed)
    IN  [that EXCEPT !.position = add(@, that.velocity),
                     !.velocity = velocity,
                     !.acceleration = multiply(@, Scalar(0))]

\* update without the speed limit.
update_noLimit(that) ==
    LET velocity == add(that.velocity, that.acceleration)
    IN  [that EXCEPT !.velocity = velocity,
                     !.position = add(@, velocity),
                     !.acceleration = multiply(@, Scalar(0))]

\* update without the acceleration reset.
update_noReset(that) ==
    LET velocity == limit(add(that.velocity, that.acceleration), maxspeed)
    IN  [that EXCEPT !.velocity = velocity,
                     !.position = add(@, velocity)]

update(that) ==
    LET velocity == limit(add(that.velocity, that.acceleration), maxspeed)
    IN  [that EXCEPT !.velocity = velocity,
                     !.position = add(@, velocity),
                     !.acceleration = multiply(@, Scalar(0))]

\* borders without the two wraps at the near side.
borders_farSideOnly(that) ==
    LET x2 == IF that.position.x > worldSize + r THEN -r ELSE that.position.x
        y2 == IF that.position.y > worldSize + r THEN -r ELSE that.position.y
    IN  [that EXCEPT !.position = Vector(x2, y2)]

borders(that) ==
    LET x1 == IF that.position.x < -r THEN worldSize + r ELSE that.position.x
        y1 == IF that.position.y < -r THEN worldSize + r ELSE that.position.y
        x2 == IF x1 > worldSize + r THEN -r ELSE x1
        y2 == IF y1 > worldSize + r THEN -r ELSE y1
    IN  [that EXCEPT !.position = Vector(x2, y2)]

\* The circle render() appends to the renderer.
render(that) ==
    [cx |-> that.position.x, cy |-> that.position.y, r |-> r,
     stroke |-> that.color, fill |-> that.color]

\* --------------------------------------------------------- Flocking
VARIABLES
    boids,      \* the boids array: a sequence of Boid records
    pc,         \* where the program is: "init", "idle" (between frames),
                \* or the step of run() about to execute for boids[idx]
    idx,        \* the loop variable i of animate, 1-based
    ticks,      \* animate calls completed
    pending,    \* frame callbacks requested and not yet called
    circles,    \* the children of g, in append order
    snap,       \* history: boids when the current animate call began
    pre,        \* history: boids when the current run() began
    rule,       \* history: the three forces the current run() computed
    call,       \* a vector method call on its own: operands before and
                \* after, and what it gave back (used by VectorSpec only)
    objs,       \* for each boid, the Vector objects its position, velocity
                \* and acceleration fields refer to; boids holds their values
    ran         \* history: the indexes whose run() has returned in the
                \* current animate call, in the order they returned

vars == <<boids, pc, idx, ticks, pending, circles, snap, pre, rule, call, objs,
          ran>>

\* boid.color for loop index i (0-based) of the constructor
colorOf(i) ==
    IF i % 3 = 1 THEN "#89c3ff"
    ELSE IF i % 3 = 2 THEN "#ffcd05"
    ELSE "#ff704f"

\* Values Math.random() can give the constructor, as (position, velocity)
\* pairs in tenths: positions lie in [0, 700), velocity components in [-1, 9).
Tenth(n) == (n * Scale) \div 10

Seeds ==
    { <<Vector(Tenth(10), Tenth(1000)), Vector(Tenth(85), Tenth(85))>>,
      <<Vector(Tenth(110), Tenth(1000)), Vector(Tenth(-10), Tenth(30))>>,
      <<Vector(Tenth(410), Tenth(1300)), Vector(Tenth(20), Tenth(0))>>,
      <<Vector(Tenth(6990), Tenth(6950)), Vector(Tenth(85), Tenth(80))>>,
      <<Vector(Tenth(4000), Tenth(3000)), Vector(Tenth(-10), Tenth(5))>> }

\* The Vector objects the constructors create for the boid of (1-based) index
\* k: new Vector for velocity and acceleration in Boid, new Vector for the
\* position in Flocking.  Objects are numbered from 1; 0 is a temporary.
newObjects_sharedVelocity(k) ==
    [position |-> 3 * k, velocity |-> 1, acceleration |-> 3 * k + 2]

newObjects(k) ==
    [position |-> 3 * k, velocity |-> 3 * k + 1, acceleration |-> 3 * k + 2]

\* The boids after the objects of heap took the values heap gives them: every
\* field that refers to one of them shows the new value.
WriteAll(bs, os, heap) ==
    [j \in 1..Len(bs) |->
        [bs[j] EXCEPT
            !.position = IF os[j].position \in DOMAIN heap
                         THEN heap[os[j].position] ELSE @,
            !.velocity = IF os[j].velocity \in DOMAIN heap
                         THEN heap[os[j].velocity] ELSE @,
            !.acceleration = IF os[j].acceleration \in DOMAIN heap
                             THEN heap[os[j].acceleration] ELSE @]]

\* The boids after boid k's methods wrote the values of new into the objects
\* of its own three fields (that.velocity.add(..), that.position.x = ..).
commit(bs, os, k, new) ==
    WriteAll(bs, os,
             [o \in {os[k].position, os[k].velocity, os[k].acceleration} |->
                 IF o = os[k].position THEN new.position
                 ELSE IF o = os[k].velocity THEN new.velocity
                 ELSE new.acceleration])

RECURSIVE scanEffect(_, _, _, _)
\* What one neighbour scan of boid i does to the boids from index k on: each
\* iteration calls Vector.dist(that.position, other.position).
scanEffect(bs, os, i, k) ==
    IF k > Len(bs) THEN bs
    ELSE LET a == os[i].position
             b == os[k].position
             heap == [o \in {a, b} |->
                         IF o = a THEN bs[i].position ELSE bs[k].position]
         IN  scanEffect(WriteAll(bs, os, Vector_distOn(heap, a, b).heap),
                        os, i, k + 1)

\* The three scans of flock: seperate, align, cohesion.
scansEffect(bs, os, i) ==
    scanEffect(scanEffect(scanEffect(bs, os, i, 1), os, i, 1), os, i, 1)

Init ==
    /\ \E seed \in [1..NumBoids -> Seeds] :
          boids = [k \in 1..NumBoids |->
                     Boid(seed[k][1], seed[k][2], colorOf(k - 1))]
    /\ pc = "init"
    /\ idx = 0
    /\ ticks = 0
    /\ pending = 0
    /\ circles = <<>>
    /\ snap = <<>>
    /\ pre = <<>>
    /\ rule = <<>>
    /\ call = <<>>
    /\ objs = [k \in 1..NumBoids |-> newObjects(k)]
    /\ ran = <<>>

\* An animate that requests the next frame twice.
animateBegin_requestsTwice(pendingNow) ==
    /\ pending' = pendingNow + 2
    /\ circles' = <<>>
    /\ idx' = 1
    /\ pc' = "flock"
    /\ ticks' = ticks
    /\ snap' = boids
    /\ ran' = <<>>
    /\ UNCHANGED <<boids, pre, rule, call, objs>>

\* An animate that constructs one more agent on every frame.
animateBegin_spawns(pendingNow) ==
    /\ pending' = pendingNow + 1
    /\ circles' = <<>>
    /\ idx' = 1
    /\ pc' = "flock"
    /\ ticks' = ticks
    /\ snap' = boids
    /\ boids' = Append(boids, Boid(Vector(0, 0), Vector(0, 0), colorOf(0)))
    /\ objs' = [k \in 1..(Len(boids) + 1) |-> newObjects(k)]
    /\ ran' = <<>>
    /\ UNCHANGED <<pre, rule, call>>

\* The body of animate up to the loop: request the next frame, clear g,
\* let i = 0.
animateBegin(pendingNow) ==
    /\ pending' = pendingNow + 1
    /\ circles' = <<>>
    /\ idx' = 1
    /\ pc' = IF 1 <= Len(boids) THEN "flock" ELSE "idle"
    /\ ticks' = IF 1 <= Len(boids) THEN ticks ELSE ticks + 1
    /\ snap' = boids
    /\ ran' = <<>>
    /\ UNCHANGED <<boids, pre, rule, call, objs>>

\* flocking.animate(): the call that starts the loop.
Start ==
    /\ pc = "init"
    /\ animateBegin(pending)

\* The browser calls a requested frame callback.
Frame ==
    /\ pc = "idle"
    /\ pending > 0
    /\ ticks < MaxTicks
    /\ animateBegin(pending - 1)

\* boids[i].run(boids), first step: flock(boids)
Flock ==
    /\ pc = "flock"
    /\ pre' = boids
    /\ rule' = forces(boids[idx], boids)
    /\ boids' = commit(scansEffect(boids, objs, idx), objs, idx,
                       flock(boids[idx], boids))
    /\ pc' = "update"
    /\ UNCHANGED <<idx, ticks, pending, circles, snap, call, objs, ran>>

Update ==
    /\ pc = "update"
    /\ boids' = commit(boids, objs, idx, update(boids[idx]))
    /\ pc' = "borders"
    /\ UNCHANGED <<idx, ticks, pending, circles, snap, pre, rule, call, objs,
                   ran>>

Borders ==
    /\ pc = "borders"
    /\ boids' = commit(boids, objs, idx, borders(boids[idx]))
    /\ pc' = "render"
    /\ UNCHANGED <<idx, ticks, pending, circles, snap, pre, rule, call, objs,
                   ran>>

\* render(), then i++ and the loop test i < boids.length
Render ==
    /\ pc = "render"
    /\ circles' = Append(circles, render(boids[idx]))
    /\ idx' = idx + 1
    /\ pc' = IF idx + 1 <= Len(boids) THEN "flock" ELSE "idle"
    /\ ticks' = IF idx + 1 <= Len(boids) THEN ticks ELSE ticks + 1
    /\ ran' = Append(ran, idx)
    /\ UNCHANGED <<boids, pending, snap, pre, rule, call, objs>>

Next == Start \/ Frame \/ Flock \/ Update \/ Borders \/ Render

Spec == Init /\ [][Next]_vars

\* ------------------------------------------ vector methods on their own
Ops == {"negative", "add", "subtract", "multiply", "div"}

\* this.op(v); negative takes no operand.
ApplyInstance(op, this, v) ==
    CASE op = "negative" -> negative(this)
      [] op = "add"      -> add(this, v)
      [] op = "subtract" -> subtract(this, v)
      [] op = "multiply" -> multiply(this, v)
      [] op = "div"      -> div(this, v)

\* Vector.op(a, b); Vector.negative takes one vector.
ApplyStatic(op, a, b) ==
    CASE op = "negative" -> Vector_negative(a)
      [] op = "add"      -> Vector_add(a, b)
      [] op = "subtract" -> Vector_subtract(a, b)
      [] op = "multiply" -> Vector_multiply(a, b)
      [] op = "div"      -> Vector_div(a, b)

Components == {k * ((35 * Scale) \div 10) : k \in -VecRange..VecRange}

Vectors == {Vector(x, y) : x \in Components, y \in Components}

Scalars == {Scalar(n) : n \in {0, Scale, maxforce, maxspeed, -maxforce}}

VectorInit ==
    /\ boids = <<>>
    /\ pc = "vector"
    /\ idx = 0
    /\ ticks = 0
    /\ pending = 0
    /\ circles = <<>>
    /\ snap = <<>>
    /\ pre = <<>>
    /\ rule = <<>>
    /\ objs = <<>>
    /\ ran = <<>>
    /\ \E a \in Vectors, b \in Vectors \cup Scalars :
          call = [kind |-> "none", op |-> "none", a0 |-> a, b0 |-> b,
                  a |-> a, b |-> b, out |-> Returned(Vector(0, 0))]

\* a.op(b): mutates a and returns it.
InstanceCall(op) ==
    /\ pc = "vector"
    /\ call.kind = "none"
    /\ LET this == ApplyInstance(op, call.a, call.b)
       IN  call' = [call EXCEPT !.kind = "instance", !.op = op,
                                !.a = this, !.out = Returned(this)]
    /\ UNCHANGED <<boids, pc, idx, ticks, pending, circles, snap, pre, rule, objs,
                   ran>>

\* Vector.op(a, b): reads a and b, returns a new vector or throws.
StaticCall(op) ==
    /\ pc = "vector"
    /\ call.kind = "none"
    /\ call' = [call EXCEPT !.kind = "static", !.op = op,
                            !.out = ApplyStatic(op, call.a, call.b)]
    /\ UNCHANGED <<boids, pc, idx, ticks, pending, circles, snap, pre, rule, objs,
                   ran>>

\* a.limit(max) with a scalar max
LimitCall ==
    /\ pc = "vector"
    /\ call.kind = "none"
    /\ ~IsVector(call.b)
    /\ LET this == limit(call.a, call.b.s)
       IN  call' = [call EXCEPT !.kind = "instance", !.op = "limit",
                                !.a = this, !.out = Returned(this)]
    /\ UNCHANGED <<boids, pc, idx, ticks, pending, circles, snap, pre, rule, objs,
                   ran>>

\* a.normalize()
NormalizeCall ==
    /\ pc = "vector"
    /\ call.kind = "none"
    /\ LET this == normalize(call.a)
       IN  call' = [call EXCEPT !.kind = "instance", !.op = "normalize",
                                !.a = this, !.out = Returned(this)]
    /\ UNCHANGED <<boids, pc, idx, ticks, pending, circles, snap, pre, rule, objs,
                   ran>>

\* a.angleTo(b)
AngleToCall ==
    /\ pc = "vector"
    /\ call.kind = "none"
    /\ call' = [call EXCEPT !.kind = "instance", !.op = "angleTo",
                            !.out = angleTo(call.a, call.b)]
    /\ UNCHANGED <<boids, pc, idx, ticks, pending, circles, snap, pre, rule, objs,
                   ran>>

VectorNext ==
    \/ \E op \in Ops : InstanceCall(op)
    \/ \E op \in Ops : StaticCall(op)
    \/ LimitCall
    \/ NormalizeCall
    \/ AngleToCall

VectorSpec == VectorInit /\ [][VectorNext]_vars

\* boids[i].run(boids) without the rendering: flock, update, borders
run(that, bs) == borders(update(flock(that, bs)))

RECURSIVE animateLoop(_, _)
\* The for loop of animate from index k on, as a function of the array.
animateLoop(bs, k) ==
    IF k > Len(bs) THEN bs
    ELSE animateLoop([bs EXCEPT ![k] = run(@, bs)], k + 1)

\* ------------------------------------------------------------ claims
\* The agent whose run() is executing has completed flock().
AfterFlock == pc \in {"update", "borders", "render"}

\* boids[k] has completed at least one run().
HasRun(k) ==
    \/ ticks >= 1
    \/ pc \in {"flock", "update", "borders", "render"} /\ k < idx
    \/ pc = "render" /\ k = idx

\* C1 (as claimed): within one tick every agent computes its three forces from
\* the positions and velocities all agents had when the tick began.
C1_ForcesFromPreviousTick ==
    AfterFlock => rule = forces(snap[idx], snap)

\* The array with its agents in the order p (a permutation of its indices).
Reorder(bs, p) == [k \in 1..Len(bs) |-> bs[p[k]]]

\* C5 (as claimed): between two ticks, running the next tick on any reordering
\* of the agents gives every agent the position and velocity it gets in the
\* array's own order.
C5_OrderInsignificant ==
    pc \in {"init", "idle"} =>
        \A p \in Permutations(1..Len(boids)) :
            LET own   == animateLoop(boids, 1)
                other == animateLoop(Reorder(boids, p), 1)
            IN  \A k \in 1..Len(boids) :
                    /\ other[k].position = own[p[k]].position
                    /\ other[k].velocity = own[p[k]].velocity

\* C2 (as claimed): after a completed run() the agent's speed is at most
\* maxspeed: |velocity|^2 <= maxspeed^2.
C2_SpeedAtMostMax ==
    \A k \in 1..Len(boids) :
        HasRun(k) => magSq(boids[k].velocity) <= maxspeed * maxspeed

\* What the two roundings of limit (the division by the magnitude, the
\* multiplication by max) can add to a magnitude of max: each component is
\* off by at most max / (2 Scale) + 1/2 units.
Slack(max) == Abs(max) \div Scale + 2

\* C2 (amended): after a completed run() the agent's speed is at most maxspeed
\* up to the rounding error of limit.
C2_SpeedAtMostMaxRounded ==
    \A k \in 1..Len(boids) :
        HasRun(k) =>
            magSq(boids[k].velocity)
                <= (maxspeed + Slack(maxspeed)) * (maxspeed + Slack(maxspeed))

\* C2 witness: an agent that began its run() faster than maxspeed, and with
\* neighbours acting on it, has completed the run.
C2_Witness ==
    /\ pc = "render"
    /\ magSq(pre[idx].velocity) > maxspeed * maxspeed
    /\ rule.sep # Vector(0, 0)
    /\ magSq(boids[idx].velocity) <= maxspeed * maxspeed

\* C3: after a completed tick every position lies in [-r, 700 + r] on both axes.
C3_PositionInWorld ==
    pc = "idle" =>
        \A k \in 1..Len(boids) :
            /\ -r <= boids[k].position.x /\ boids[k].position.x <= worldSize + r
            /\ -r <= boids[k].position.y /\ boids[k].position.y <= worldSize + r

\* C3 witness: a tick has completed in which an agent left the world on the
\* far side and another (or the same) on the near side, and was wrapped.
C3_Witness ==
    /\ pc = "idle"
    /\ \E k \in 1..Len(boids) :
          boids[k].position.x = -r /\ boids[k].velocity.x > 0
    /\ \E k \in 1..Len(boids) :
          boids[k].position.x = worldSize + r /\ boids[k].velocity.x < 0

\* C4: at the end of every tick every agent's acceleration is the zero vector,
\* so what update() integrates is the weighted sum of this run's forces.
C4_AccelerationReset ==
    /\ pc = "idle" => \A k \in 1..Len(boids) : boids[k].acceleration = Vector(0, 0)
    /\ pc = "update" =>
           boids[idx].acceleration =
               add(add(multiply(rule.sep, Scalar(sepWeight)),
                       multiply(rule.ali, Scalar(aliWeight))),
                   multiply(rule.coh, Scalar(cohWeight)))

\* C4 witness: a second tick is integrating a nonzero force sum.
C4_Witness ==
    /\ pc = "update"
    /\ ticks >= 1
    /\ boids[idx].acceleration # Vector(0, 0)

\* No other agent of bs lies within the largest of the three radii of bs[k].
Isolated(bs, k) ==
    \A j \in 1..Len(bs) :
        j # k => Vector_dist(bs[k].position, bs[j].position) >= 70 * Scale

\* A coordinate after the wrap at the world's border.
Wrapped(c) ==
    IF c < -r THEN worldSize + r ELSE IF c > worldSize + r THEN -r ELSE c

NoForce == [sep |-> Vector(0, 0), ali |-> Vector(0, 0), coh |-> Vector(0, 0)]

\* C6 (as claimed): an isolated agent gets the zero vector from each rule, and
\* after its run() its velocity is unchanged and its position is the old
\* position plus that velocity.
C6_IsolatedStraightLine ==
    (pc = "render" /\ Isolated(pre, idx)) =>
        /\ rule = NoForce
        /\ boids[idx].velocity = pre[idx].velocity
        /\ boids[idx].position = add(pre[idx].position, pre[idx].velocity)

\* C6 (amended): an isolated agent gets the zero vector from each rule; after
\* its run() its velocity is the old velocity, clamped to maxspeed when it was
\* faster, and its position is the old position plus the resulting velocity,
\* wrapped at the world's border.
C6_IsolatedClampedWrapped ==
    (pc = "render" /\ Isolated(pre, idx)) =>
        LET old == pre[idx].velocity
            new == boids[idx].velocity
            pos == add(pre[idx].position, new)
        IN  /\ rule = NoForce
            /\ magSq(old) <= maxspeed * maxspeed => new = old
            /\ magSq(old) > maxspeed * maxspeed => new = limit(old, maxspeed)
            /\ boids[idx].position = Vector(Wrapped(pos.x), Wrapped(pos.y))

\* C6 witness: an agent with other agents in the flock, none of them within
\* 70, has completed a run() at a speed below maxspeed.
C6_Witness ==
    /\ pc = "render"
    /\ Isolated(pre, idx)
    /\ \E j \in 1..Len(pre) : pre[j].position # pre[idx].position
    /\ pre[idx].velocity # Vector(0, 0)
    /\ magSq(pre[idx].velocity) <= maxspeed * maxspeed
    /\ boids[idx].position = add(pre[idx].position, pre[idx].velocity)

\* The agents of bs whose color is c.
OfColor(bs, c) == SelectSeq(bs, LAMBDA b : b.color = c)

\* bs[j] is another agent within the cohesion radius of bs[k].
InCohesionRadius(bs, k, j) ==
    LET d == Vector_dist(bs[k].position, bs[j].position)
    IN  j # k /\ d > 0 /\ d < 70 * Scale

\* C7: the cohesion force depends only on the agents of the agent's own color,
\* and is zero when none of them is within the cohesion radius, whatever
\* agents of other colors are.
C7_CohesionSameColorOnly ==
    AfterFlock =>
        /\ rule.coh = cohesion(pre[idx], OfColor(pre, pre[idx].color))
        /\ (\A j \in 1..Len(pre) :
               InCohesionRadius(pre, idx, j) => pre[j].color # pre[idx].color)
           => rule.coh = Vector(0, 0)

\* C7 witness: an agent computed a nonzero cohesion force with an agent of its
\* own color and an agent of another color both within the cohesion radius.
C7_Witness ==
    /\ AfterFlock
    /\ \E j \in 1..Len(pre) :
          InCohesionRadius(pre, idx, j) /\ pre[j].color = pre[idx].color
    /\ \E j \in 1..Len(pre) :
          InCohesionRadius(pre, idx, j) /\ pre[j].color # pre[idx].color
    /\ rule.coh # Vector(0, 0)

\* The divisor a div call applies on each axis.
DivisorX(b) == IF IsVector(b) THEN b.x ELSE b.s
DivisorY(b) == IF IsVector(b) THEN b.y ELSE b.s

\* C8 (as claimed): in every form of divide (instance with a scalar, instance
\* with a vector, static), a zero divisor on an axis leaves that axis's
\* component as it was, and the call gives back finite components.
C8_DivideByZeroIsNoOp ==
    (pc = "vector" /\ call.op = "div") =>
        /\ DivisorX(call.b0) = 0 =>
               /\ call.out.status = "returned"
               /\ call.out.x = "finite"
               /\ call.out.value.x = call.a0.x
        /\ DivisorY(call.b0) = 0 =>
               /\ call.out.status = "returned"
               /\ call.out.y = "finite"
               /\ call.out.value.y = call.a0.y

\* C9 (as claimed): each static operation gives back what a.copy().op(b) gives,
\* for a vector or a scalar b, and leaves a and b as they were.
C9_StaticMirrorsInstance ==
    (pc = "vector" /\ call.kind = "static") =>
        /\ call.out = Returned(ApplyInstance(call.op, copy(call.a0), call.b0))
        /\ call.a = call.a0
        /\ call.b = call.b0

cross(a, b) == a.x * b.y - a.y * b.x

dot(a, b) == a.x * b.x + a.y * b.y

\* w points where v points, up to an error of e units on each component of w.
SameDirection(v, w, e) ==
    /\ dot(v, w) >= 0
    /\ Abs(cross(v, w)) <= (Abs(v.x) + Abs(v.y)) * e

\* C10 (as claimed): limit(m) leaves v as it was when |v| <= m; otherwise the
\* result has magnitude m, never more than m, and the direction of v.
C10_LimitExact ==
    (pc = "vector" /\ call.op = "limit") =>
        LET v == call.a0
            m == call.b0.s
            w == call.a
        IN  IF m >= 0 /\ magSq(v) <= m * m
            THEN w = v
            ELSE /\ mag(w) = m
                 /\ magSq(w) <= m * m
                 /\ SameDirection(v, w, Slack(m))

\* C10 (amended): for m >= 0, limit(m) leaves v as it was when |v| <= m;
\* otherwise the result has magnitude m up to the rounding error of the
\* division and the multiplication (it can exceed m by that much), and the
\* direction of v up to the same error.
C10_LimitRounded ==
    (pc = "vector" /\ call.op = "limit" /\ call.b0.s >= 0) =>
        LET v == call.a0
            m == call.b0.s
            w == call.a
        IN  IF magSq(v) <= m * m
            THEN w = v
            ELSE /\ magSq(w) <= (m + Slack(m)) * (m + Slack(m))
                 /\ m >= Slack(m) => magSq(w) >= (m - Slack(m)) * (m - Slack(m))
                 /\ SameDirection(v, w, Slack(m))

\* C10 witness: limit(10.5) rescaled a longer vector with two nonzero
\* components.
C10_Witness ==
    /\ pc = "vector"
    /\ call.op = "limit"
    /\ call.b0.s = maxspeed
    /\ magSq(call.a0) > maxspeed * maxspeed
    /\ call.a0.x # 0 /\ call.a0.y # 0 /\ call.a0.x # call.a0.y
    /\ call.a # call.a0

\* C11: Vector.dist writes to neither of its arguments, also when both are one
\* object (the scan's own agent), so when flock() returns every agent's
\* position, and velocity, is what it was when run() began.
C11_DistLeavesOperands ==
    pc = "update" =>
        \A k \in 1..Len(boids) :
            /\ boids[k].position = pre[k].position
            /\ boids[k].velocity = pre[k].velocity

\* C11 witness: the scans of an agent that is not the first found a neighbour
\* within the separation radius.
C11_Witness ==
    /\ pc = "update"
    /\ idx > 1
    /\ rule.sep # Vector(0, 0)
    /\ \A k \in 1..Len(boids) : boids[k].position = pre[k].position

\* C12: the number of agents is fixed after construction: whatever frames have
\* run, the collection passed to run() holds the agents it was built with,
\* each with its own three vector objects.
C12_AgentCountFixed ==
    /\ Len(boids) = NumBoids
    /\ DOMAIN objs = 1..NumBoids
    /\ pre # <<>> => Len(pre) = NumBoids

C12_Witness ==
    /\ pc = "idle"
    /\ ticks >= 2
    /\ Len(circles) = NumBoids
    /\ Len(boids) = NumBoids

\* A run() of some agent is in progress.
Running == pc \in {"flock", "update", "borders", "render"}

\* C13: ticks never overlap. While an animate call is processing the agents
\* exactly one frame callback is pending (the one it requested before the loop)
\* and it is not called: the agents whose run() has returned are 1..idx-1, each
\* once and in index order, with one circle each. Between animate calls at most
\* one callback is pending and every agent has run exactly once.
C13_TicksNeverOverlap ==
    /\ pending <= 1
    /\ Running =>
          /\ pending = 1
          /\ ~ ENABLED Frame
          /\ idx \in 1..Len(boids)
          /\ ran = [k \in 1..(idx - 1) |-> k]
          /\ Len(circles) = idx - 1
    /\ pc = "idle" =>
          /\ ran = [k \in 1..Len(boids) |-> k]
          /\ Len(circles) = Len(boids)

C13_Witness ==
    /\ pc = "flock"
    /\ ticks = 1
    /\ idx = 2
    /\ pending = 1
    /\ ran = <<1>>

\* The acceleration flock() composes from the three forces of this run().
Composed ==
    add(add(multiply(rule.sep, Scalar(sepWeight)),
            multiply(rule.ali, Scalar(aliWeight))),
        multiply(rule.coh, Scalar(cohWeight)))

\* C14: the phases of one run() occur in the order force composition,
\* integration (velocity += acceleration, clamp, position += the new velocity),
\* acceleration reset, wrap, render; the circle appended for an agent is at its
\* wrapped position, which is still the agent's position for the rest of the
\* tick and when the tick ends.
C14_PhaseOrder ==
    /\ pc = "update" =>
          /\ boids[idx].acceleration = Composed
          /\ boids[idx].velocity = pre[idx].velocity
          /\ boids[idx].position = pre[idx].position
    /\ pc = "borders" =>
          /\ boids[idx].velocity = limit(add(pre[idx].velocity, Composed), maxspeed)
          /\ boids[idx].position = add(pre[idx].position, boids[idx].velocity)
          /\ boids[idx].acceleration = Vector(0, 0)
    /\ pc = "render" =>
          /\ boids[idx] = run(pre[idx], pre)
          /\ boids[idx].position.x =
                Wrapped(pre[idx].position.x + boids[idx].velocity.x)
          /\ boids[idx].position.y =
                Wrapped(pre[idx].position.y + boids[idx].velocity.y)
          /\ boids[idx].acceleration = Vector(0, 0)
          /\ Len(circles) = idx - 1
    /\ \A k \in 1..Len(circles) :
          /\ circles[k] = render(boids[k])
          /\ circles[k].cx = Wrapped(circles[k].cx)
          /\ circles[k].cy = Wrapped(circles[k].cy)

\* C14 witness: a tick has ended; an agent that left the world in its run() was
\* drawn at the border it was wrapped to, and agents ran after it.
C14_Witness ==
    /\ pc = "idle"
    /\ Len(circles) = Len(boids)
    /\ \E k \in 1..(Len(boids) - 1) :
          /\ circles[k].cx = worldSize + r
          /\ boids[k].velocity.x < 0
          /\ circles[k].cx = boids[k].position.x
          /\ circles[k].cy = boids[k].position.y

\* C15 (as claimed): every vector operation is total: whatever the operands,
\* vector or scalar, zero or not, the call returns and nothing is thrown.
C15_AllOperationsTotal ==
    (pc = "vector" /\ call.kind # "none") => call.out.status = "returned"

\* The bound of C17 on the acceleration: (2.0 + 1.0 + 0.8) * f.
WeightedBound(f) == ((sepWeight + aliWeight + cohWeight) * f) \div Scale

\* C17 (as claimed): each rule force of a run() has magnitude at most maxforce,
\* and the acceleration update() integrates at most 3.8 * maxforce.
C17_ForcesAtMostMax ==
    /\ rule # <<>> =>
          /\ magSq(rule.sep) <= maxforce * maxforce
          /\ magSq(rule.ali) <= maxforce * maxforce
          /\ magSq(rule.coh) <= maxforce * maxforce
    /\ pc = "update" =>
          magSq(boids[idx].acceleration)
              <= WeightedBound(maxforce) * WeightedBound(maxforce)

\* C17 (amended): each rule force has magnitude at most maxforce up to the
\* rounding error of limit, on every path (a force that is not limited is the
\* zero vector), and the acceleration update() integrates is at most
\* 3.8 times that, up to the rounding of the three products.
C17_ForcesAtMostMaxRounded ==
    LET f == maxforce + Slack(maxforce)
    IN  /\ rule # <<>> =>
              /\ magSq(rule.sep) <= f * f
              /\ magSq(rule.ali) <= f * f
              /\ magSq(rule.coh) <= f * f
        /\ pc = "update" =>
              magSq(boids[idx].acceleration)
                  <= (WeightedBound(f) + 3) * (WeightedBound(f) + 3)

\* C17 witness: a run() whose three forces are all nonzero, the alignment force
\* having been limited, and whose acceleration is larger than maxforce.
C17_Witness ==
    /\ pc = "update"
    /\ rule.sep # Vector(0, 0)
    /\ rule.coh # Vector(0, 0)
    /\ magSq(rule.ali) >= (maxforce - Slack(maxforce)) * (maxforce - Slack(maxforce))
    /\ magSq(boids[idx].acceleration) > maxforce * maxforce

\* The agents other than k that are closer to k than radius, at the beginning
\* of the current run().
Others(k, radius) ==
    {j \in 1..Len(pre) \ {k} :
        Vector_dist(pre[k].position, pre[j].position) < radius}

NoneYet == [steer |-> Vector(0, 0), sum |-> Vector(0, 0), count |-> 0]

\* C18 (as claimed): the test d > 0 excludes only the agent itself: separation
\* and alignment count every other agent closer than their radius, cohesion
\* every such agent of the same color, an agent at the same position included.
C18_OnlySelfExcluded ==
    pc = "update" =>
        /\ seperateScan(pre[idx], pre, 1, NoneYet).count
              = Cardinality(Others(idx, 30 * Scale))
        /\ alignScan(pre[idx], pre, 1, NoneYet).count
              = Cardinality(Others(idx, 50 * Scale))
        /\ cohesionScan(pre[idx], pre, 1, NoneYet).count
              = Cardinality({j \in Others(idx, 70 * Scale) :
                                SameColor(pre[idx], pre[j])})

\* The Vector objects agent k refers to.
ObjectsOf(k) == {objs[k].position, objs[k].velocity, objs[k].acceleration}

\* C19: a run() of one agent changes only that agent's position, velocity and
\* acceleration: at every step of the run every other agent is what it was when
\* the run began, and the agent's own color is; no two agents refer to the same
\* Vector object, and an agent's three fields are three objects.
C19_RunChangesOnlyOwnFields ==
    /\ AfterFlock =>
          /\ \A k \in 1..Len(boids) : k # idx => boids[k] = pre[k]
          /\ boids[idx].color = pre[idx].color
    /\ \A j, k \in DOMAIN objs : j # k => ObjectsOf(j) \cap ObjectsOf(k) = {}
    /\ \A k \in DOMAIN objs : Cardinality(ObjectsOf(k)) = 3

\* C19 witness: the second agent's run() has changed its position and its
\* velocity under forces from its neighbours, which are as they were.
C19_Witness ==
    /\ pc = "render"
    /\ idx = 2
    /\ rule.sep # Vector(0, 0)
    /\ rule.ali # Vector(0, 0)
    /\ boids[2].position # pre[2].position
    /\ boids[2].velocity # pre[2].velocity
    /\ boids[1] = pre[1]
    /\ boids[3] = pre[3]

=============================================================================
